---- MODULE Spec2Model ----
(***************************************************************************)
(* Model of the Cloudflare Instant Logs pipeline:                          *)
(*   cloudflare_client.py  CloudflareLogSessionManager (session retry)     *)
(*   log_processor.py      LogProcessor (buffer, background tick, stop)    *)
(*   main_logger.py        run_log_pipeline, _handle_shutdown_signal,      *)
(*                         main_async_wrapper                              *)
(*   websocket_handler.py  WebSocketLogReceiver, handle_log_message,       *)
(*                         process_and_flush_batch (module-level batch)    *)
(*                                                                         *)
(* The code is asyncio code: a task runs without interruption between two  *)
(* awaits that really suspend, so one action is one such stretch of a      *)
(* task, and a pc value names the await a task is suspended at.            *)
(*                                                                         *)
(* Two entry points are modelled, and Init picks one of them:              *)
(*  - main_logger.py run as a program (InitMain).  Its call                *)
(*    WebSocketLogReceiver(url, id, shutdown_event, processor) does not    *)
(*    match the three-parameter __init__ of websocket_handler.py, so the   *)
(*    pipeline leaves with TypeError as soon as a session was created; no  *)
(*    file of src/ calls LogProcessor.add_log_entry, so its calls are      *)
(*    inputs of the model.                                                 *)
(*  - WebSocketLogReceiver.start() of websocket_handler.py run as a task   *)
(*    by an owner that may set the shutdown event and cancel the task      *)
(*    (InitRecv).                                                          *)
(*                                                                         *)
(* Time is counted in ticks of one second.  A timer that is due fires     *)
(* before the clock advances again.                                        *)
(***************************************************************************)
EXTENDS Integers, Sequences, FiniteSets, TLC

\* ---------------------------------------------------------------- bounds
\* number of records the inputs deliver
MaxRecords == 3
\* number of signals delivered to the process
MaxSignals == 2
\* config.py sets 15, 15 s, 30 s and 5.0 s; the model runs them scaled down
MAX_LOG_BATCH_SIZE == 2
BATCH_FLUSH_INTERVAL_SECONDS == 2
RETRY_DELAY_SECONDS == 2
STOP_WAIT_TIMEOUT == 2
\* config.py sets 55 minutes; counted in seconds and scaled down
SESSION_RENEWAL_INTERVAL_MINUTES == 3
\* number of lines of a received frame
MaxLines == 2
\* number of receivers the owner starts one after the other
MaxSessions == 2
\* number of cancel() calls on receiver tasks
MaxCancels == 1
\* seconds counted for a batch that stays due
MaxOverdue == 2

\* ---------------------------------------------------------------- state
VARIABLES
  shutdown_event,   \* main_logger.shutdown_event
  cf_session,       \* CloudflareLogSessionManager._session: "none", "open", "closed"
  pipe_pc,          \* run_log_pipeline task: the await it is suspended at
  pipe_cancel,      \* task.cancel() was called on the pipeline task
  pipe_exc,         \* exception the pipeline task carries through its finally: "none", "TypeError"
  retry_timer,      \* remaining seconds of asyncio.sleep(RETRY_DELAY_SECONDS)
  slept,            \* seconds elapsed since the retry sleep began
  last_resp,        \* outcome of the last session-creation request
  wrap_pc,          \* main_async_wrapper / asyncio.run
  h_pc,             \* _handle_shutdown_signal tasks, one per signal
  proc_shutdown,    \* LogProcessor._shutdown_event
  log_buffer,       \* LogProcessor._log_buffer
  flush_age,        \* time.time() - LogProcessor._last_flush_time (saturating)
  output_file,      \* LogProcessor._output_file: "open", "closed"
  bg_pc,            \* LogProcessor._processing_task (_background_processor)
  bg_timer,         \* remaining seconds of its asyncio.sleep(1)
  bg_batch,         \* batch_to_process of the background task's process_buffer
  stop_pc,          \* LogProcessor.stop() frames, one per caller
  stop_batch,       \* batch_to_process of a stop() frame's process_buffer
  grace,            \* remaining seconds of wait_for(self._processing_task, 5.0)
  recv_pc,          \* WebSocketLogReceiver.start() task: the await it is suspended at
  recv_cancel,      \* task.cancel() was called on the receiver task and not yet delivered
  conn,             \* self._websocket_connection: "none", "open", "closed"
  file_handle,      \* self._log_file_handle: "none", "open", "closed"
  PROCESSED_LOG_BATCH,  \* websocket_handler.PROCESSED_LOG_BATCH
  batch_age,        \* time.time() - websocket_handler.LAST_BATCH_FLUSH_TIME (saturating)
  session_age,      \* now - self.session_start_time (saturating)
  recv_timer,       \* remaining seconds of wait_for(recv(), 1.0) or of asyncio.sleep(1)
  recv_batch,       \* batch_to_analyze of the receiver's process_and_flush_batch
  exit_reason,      \* history: why the receiver left its receive loop
  sessions,         \* history: number of receivers started
  cancels,          \* history: number of cancel() calls on receiver tasks
  abandoned,        \* history: receiver runs the owner replaced before they were over
  rec_ids,          \* history: the well-formed lines with a whitelisted field received
  parsed_ids,       \* history: the records that were parsed (json.loads returned) or
                    \*          handed to add_log_entry as parsed entries
  at_shutdown,      \* history: the buffered records when shutdown was requested
  overdue,          \* history: seconds the receiver let pass with a batch due by age
  next_id,          \* history: identity of the next record delivered
  batches,          \* history: the batches handed to the analyzer, in order
  analysed          \* history: indices of the batches whose analyzer call returned

mainVars == <<shutdown_event, cf_session, pipe_pc, pipe_cancel, pipe_exc,
              retry_timer, slept, last_resp, wrap_pc, h_pc>>
procVars == <<proc_shutdown, log_buffer, flush_age, output_file, bg_pc, bg_timer,
              bg_batch, stop_pc, stop_batch, grace>>
recvVars == <<recv_pc, recv_cancel, conn, file_handle, PROCESSED_LOG_BATCH, batch_age,
              session_age, recv_timer, recv_batch, exit_reason, sessions, cancels, abandoned>>
histVars == <<next_id, batches, analysed, rec_ids, parsed_ids, at_shutdown, overdue>>
vars == <<mainVars, procVars, recvVars, histVars>>

Handlers == 1..MaxSignals
\* the three callers of LogProcessor.stop() in main_logger.py
\* (handler tasks 1..MaxSignals, then the pipeline's finally block, then the wrapper's)
PipeCaller == MaxSignals + 1
WrapCaller == MaxSignals + 2
Callers == 1..(MaxSignals + 2)

\* what a session-creation request can end with: a response with success true and
\* destination_conf ("ok"), success true without destination_conf, a structured
\* error with code 1303 or another code, an HTTP error status, a transport error,
\* a timeout, a body that is no JSON, any other exception
Outcomes == {"ok", "ok_no_dest", "err1303", "err_other", "http_error", "client_error",
             "timeout", "bad_json", "unexpected"}


\* ------------------------------------------------ LogProcessor (log_processor.py)

\* process_buffer line 48: batch_to_process = self._log_buffer[:]
BatchToProcess(buf) == buf

\* process_buffer line 49: self._log_buffer = []
BufferAfterSwap(buf) == << >>

\* variant of process_buffer that hands the batch over and swaps nothing before
\* the analyzer is awaited
ProcessBufferNoSwap ==
  /\ batches' = Append(batches, log_buffer)
  /\ UNCHANGED <<log_buffer, flush_age>>

\* process_buffer lines 43-50, up to the await of the analyzer: the batch is
\* taken, the buffer replaced by an empty one and _last_flush_time reset.
ProcessBufferSwap ==
  /\ batches' = Append(batches, BatchToProcess(log_buffer))
  /\ log_buffer' = BufferAfterSwap(log_buffer)
  /\ flush_age' = 0

\* _background_processor lines 74-75: the flush condition of the tick
FlushDue(buf, age) ==
  \/ Len(buf) >= MAX_LOG_BATCH_SIZE
  \/ (age >= BATCH_FLUSH_INTERVAL_SECONDS /\ buf # << >>)

\* stop line 95: self._processing_task and not self._processing_task.done()
BgRunning == bg_pc \in {"sleep", "analyze"}

\* the pipeline task is over: it returned or raised ("done"), or it ended cancelled
PipeOver == pipe_pc \in {"done", "cancelled"}

\* close_aiohttp_session: closes the session and forgets it
ClosedSession(s) == IF s = "open" THEN "none" ELSE s

\* a cancellation is delivered once: whatever the pipeline task runs after the
\* CancelledError was thrown into it runs with no cancellation pending
CancelFlagAfter(c) == IF c = PipeCaller THEN FALSE ELSE pipe_cancel

\* the caller of stop() stays suspended in it
CallerAwaitsStop(c) ==
  /\ h_pc' = IF c \in Handlers THEN [h_pc EXCEPT ![c] = "stop"] ELSE h_pc
  /\ pipe_pc' = IF c = PipeCaller THEN "stop" ELSE pipe_pc
  /\ wrap_pc' = IF c = WrapCaller THEN "stop" ELSE wrap_pc
  /\ pipe_cancel' = CancelFlagAfter(c)
  /\ UNCHANGED cf_session

\* variant of the handler that closes the HTTP session without cancelling the
\* tasks and waiting for them
HandlerCloseFirst(h) ==
  /\ cf_session' = ClosedSession(cf_session)
  /\ h_pc' = [h_pc EXCEPT ![h] = "done"]
  /\ UNCHANGED <<pipe_pc, pipe_cancel, wrap_pc>>

\* _handle_shutdown_signal steps 2 and 3 (lines 33-51): cancel the tasks of
\* _main_tasks that are not done and wait for them, then close the HTTP session.
\* The pipeline task is in _main_tasks until the wrapper's finally discards it.
HandlerCancelTasks(h) ==
  IF ~PipeOver /\ wrap_pc = "await_pipeline"
  THEN /\ pipe_cancel' = TRUE
       /\ h_pc' = [h_pc EXCEPT ![h] = "gather"]
       /\ UNCHANGED <<pipe_pc, cf_session, wrap_pc>>
  ELSE /\ cf_session' = ClosedSession(cf_session)
       /\ h_pc' = [h_pc EXCEPT ![h] = "done"]
       /\ UNCHANGED <<pipe_pc, pipe_cancel, wrap_pc>>

\* what the caller of stop() does once stop() has returned
AfterStop(c) ==
  IF c \in Handlers THEN HandlerCancelTasks(c)
  ELSE IF c = PipeCaller
  THEN \* run_log_pipeline lines 138-143: close the HTTP session; the task ends
       /\ cf_session' = ClosedSession(cf_session)
       /\ pipe_pc' = "done"
       /\ pipe_cancel' = CancelFlagAfter(c)
       /\ UNCHANGED <<h_pc, wrap_pc>>
  ELSE \* main_async_wrapper line 168: the wrapper returns
       /\ wrap_pc' = "returned"
       /\ UNCHANGED <<h_pc, pipe_pc, pipe_cancel, cf_session>>

\* stop() raised CancelledError into its caller (the awaited background task was
\* cancelled by someone else, or the caller itself was cancelled)
CallerRaised(c) ==
  /\ h_pc' = IF c \in Handlers THEN [h_pc EXCEPT ![c] = "cancelled"] ELSE h_pc
  /\ pipe_pc' = IF c = PipeCaller THEN "cancelled" ELSE pipe_pc
  /\ wrap_pc' = IF c = WrapCaller THEN "returned" ELSE wrap_pc
  /\ pipe_cancel' = CancelFlagAfter(c)
  /\ UNCHANGED cf_session

\* stop lines 112-116: close the output file and return
StopClose(c) ==
  /\ output_file' = "closed"
  /\ stop_pc' = [stop_pc EXCEPT ![c] = "returned"]
  /\ UNCHANGED <<stop_batch, grace>>
  /\ AfterStop(c)

\* stop lines 107-116: process what is left in the buffer, then close
StopRemaining(c) ==
  IF log_buffer # << >>
  THEN /\ ProcessBufferSwap
       /\ stop_pc' = [stop_pc EXCEPT ![c] = "analyze"]
       /\ stop_batch' = [stop_batch EXCEPT ![c] = Len(batches) + 1]
       /\ UNCHANGED <<output_file, grace>>
       /\ CallerAwaitsStop(c)
  ELSE /\ UNCHANGED <<log_buffer, flush_age, batches>>
       /\ StopClose(c)

\* stop lines 89-110 from the call to its first await
StopCall(c) ==
  /\ proc_shutdown' = TRUE
  /\ IF BgRunning
     THEN /\ stop_pc' = [stop_pc EXCEPT ![c] = "wait_bg"]
          /\ grace' = [grace EXCEPT ![c] = STOP_WAIT_TIMEOUT]
          /\ UNCHANGED <<log_buffer, flush_age, output_file, stop_batch, batches>>
          /\ CallerAwaitsStop(c)
     ELSE StopRemaining(c)

\* the variables StopCall and its parts decide
stopVars == <<proc_shutdown, log_buffer, flush_age, output_file, stop_pc, stop_batch,
              grace, batches, h_pc, pipe_pc, pipe_cancel, cf_session, wrap_pc>>

\* a caller whose cancellation is pending is not resumed by its awaited future
Resumable(c) == ~(c = PipeCaller /\ pipe_cancel)

\* add_log_entry lines 28-30.  No file of src/ calls it: the call is an input.
AddLogEntry ==
  /\ wrap_pc \in {"await_pipeline", "stop"}
  /\ pipe_pc # "start"
  /\ next_id <= MaxRecords
  /\ log_buffer' = Append(log_buffer, next_id)
  /\ next_id' = next_id + 1
  /\ rec_ids' = rec_ids \cup {next_id}
  /\ parsed_ids' = parsed_ids \cup {next_id}
  /\ UNCHANGED <<mainVars, proc_shutdown, flush_age, output_file, bg_pc, bg_timer,
                 bg_batch, stop_pc, stop_batch, grace, batches, analysed, at_shutdown,
                 overdue>>
  /\ UNCHANGED recvVars

\* _background_processor lines 70-77: asyncio.sleep(1) is over; flush when due,
\* else back to the loop test and the next sleep
BgWake ==
  /\ bg_pc = "sleep"
  /\ bg_timer = 0
  /\ IF FlushDue(log_buffer, flush_age)
     THEN /\ ProcessBufferSwap
          /\ bg_pc' = "analyze"
          /\ bg_batch' = Len(batches) + 1
          /\ UNCHANGED bg_timer
     ELSE /\ bg_pc' = IF proc_shutdown THEN "done" ELSE "sleep"
          /\ bg_timer' = 1
          /\ UNCHANGED <<log_buffer, flush_age, batches, bg_batch>>
  /\ UNCHANGED <<mainVars, proc_shutdown, output_file, stop_pc, stop_batch, grace,
                 next_id, analysed, rec_ids, parsed_ids, at_shutdown, overdue>>
  /\ UNCHANGED recvVars

\* process_buffer lines 53-65 in the background task: analyze_logs returned (it
\* catches every Exception itself); back to the loop test
BgAnalyzeReturn ==
  /\ bg_pc = "analyze"
  /\ analysed' = analysed \cup {bg_batch}
  /\ bg_pc' = IF proc_shutdown THEN "done" ELSE "sleep"
  /\ bg_timer' = 1
  /\ UNCHANGED <<mainVars, proc_shutdown, log_buffer, flush_age, output_file, bg_batch,
                 stop_pc, stop_batch, grace, next_id, batches, rec_ids, parsed_ids, at_shutdown, overdue>>
  /\ UNCHANGED recvVars

\* stop line 98: the awaited background task is over.  A task that ended
\* cancelled makes wait_for raise CancelledError, which stop() does not catch.
StopWaitDone(c) ==
  /\ stop_pc[c] = "wait_bg"
  /\ Resumable(c)
  /\ ~BgRunning
  /\ IF bg_pc = "cancelled"
     THEN /\ stop_pc' = [stop_pc EXCEPT ![c] = "raised"]
          /\ CallerRaised(c)
          /\ UNCHANGED <<log_buffer, flush_age, output_file, stop_batch, grace, batches>>
     ELSE StopRemaining(c)
  /\ UNCHANGED <<shutdown_event, pipe_exc, retry_timer, slept, last_resp, proc_shutdown, bg_pc,
                 bg_timer, bg_batch, next_id, analysed, rec_ids, parsed_ids, at_shutdown, overdue>>
  /\ UNCHANGED recvVars

\* variant of stop() that returns after the forced cancellation without the
\* final flush and without closing the output file
StopWaitTimeoutNoFlush(c) ==
  /\ stop_pc[c] = "wait_bg"
  /\ Resumable(c)
  /\ BgRunning
  /\ grace[c] = 0
  /\ bg_pc' = "cancelled"
  /\ stop_pc' = [stop_pc EXCEPT ![c] = "returned"]
  /\ AfterStop(c)
  /\ UNCHANGED <<log_buffer, flush_age, output_file, stop_batch, grace, batches>>
  /\ UNCHANGED <<shutdown_event, pipe_exc, retry_timer, slept, last_resp, proc_shutdown,
                 bg_timer, bg_batch, next_id, analysed, rec_ids, parsed_ids, at_shutdown, overdue>>
  /\ UNCHANGED recvVars

\* stop lines 99-105: the 5 s are over; wait_for cancels the background task and
\* raises TimeoutError, stop() goes on with what is left in the buffer
StopWaitTimeout(c) ==
  /\ stop_pc[c] = "wait_bg"
  /\ Resumable(c)
  /\ BgRunning
  /\ grace[c] = 0
  /\ bg_pc' = "cancelled"
  /\ StopRemaining(c)
  /\ UNCHANGED <<shutdown_event, pipe_exc, retry_timer, slept, last_resp, proc_shutdown,
                 bg_timer, bg_batch, next_id, analysed, rec_ids, parsed_ids, at_shutdown, overdue>>
  /\ UNCHANGED recvVars

\* stop line 110: the analyzer call of the final process_buffer returned
StopAnalyzeReturn(c) ==
  /\ stop_pc[c] = "analyze"
  /\ Resumable(c)
  /\ analysed' = analysed \cup {stop_batch[c]}
  /\ StopClose(c)
  /\ UNCHANGED <<shutdown_event, pipe_exc, retry_timer, slept, last_resp, proc_shutdown,
                 log_buffer, flush_age, bg_pc, bg_timer, bg_batch, next_id, batches,
                 rec_ids, parsed_ids, at_shutdown, overdue>>
  /\ UNCHANGED recvVars


\* ------------------------------------ CloudflareLogSessionManager (cloudflare_client.py)

\* variant of the success test that looks at the success flag alone
SuccessFlagOnly(o) == o \in {"ok", "ok_no_dest"}

\* create_instant_log_session line 62: success is true and destination_conf present
HasSession(o) == o = "ok"

\* variant of the retry that asks again at once
NoDelayFor(o) == 0

\* create_instant_log_session lines 86-87: the delay before the next request
RetryDelayFor(o) == RETRY_DELAY_SECONDS

\* ------------------------------------------------ run_log_pipeline (main_logger.py)

\* run_log_pipeline lines 130-143, the finally block, entered carrying exception e
PipelineFinally(e) ==
  /\ pipe_exc' = e
  /\ IF ~proc_shutdown
     THEN StopCall(PipeCaller)
     ELSE /\ cf_session' = ClosedSession(cf_session)
          /\ pipe_pc' = "done"
          /\ pipe_cancel' = FALSE
          /\ UNCHANGED <<proc_shutdown, log_buffer, flush_age, output_file, stop_pc,
                         stop_batch, grace, batches, h_pc, wrap_pc>>

\* run_log_pipeline lines 60-74 and create_instant_log_session lines 39-57: the
\* managers are built, the background task is started, the first request is sent.
\* The task was scheduled before any signal callback can run, so the loop test of
\* line 72 finds the event clear.
PipelineStart ==
  /\ pipe_pc = "start"
  /\ cf_session' = "open"
  /\ bg_pc' = "sleep"
  /\ bg_timer' = 1
  /\ ~shutdown_event
  /\ pipe_pc' = "post"
  /\ UNCHANGED <<shutdown_event, pipe_cancel, pipe_exc, retry_timer, slept, last_resp,
                 wrap_pc, h_pc, proc_shutdown, log_buffer, flush_age, output_file,
                 bg_batch, stop_pc, stop_batch, grace, histVars>>
  /\ UNCHANGED recvVars

\* create_instant_log_session lines 57-87: the request is answered with outcome o.
\* With a session the call returns and run_log_pipeline goes on (lines 76-82):
\* it breaks when shutdown was requested, else it builds the receiver with four
\* arguments, which raises TypeError; both ways lead to the finally block.
\* Without a session the loop sleeps and asks again.
PostResponse(o) ==
  /\ pipe_pc = "post"
  /\ ~pipe_cancel
  /\ last_resp' = o
  /\ IF HasSession(o)
     THEN /\ PipelineFinally(IF shutdown_event THEN "none" ELSE "TypeError")
          /\ UNCHANGED <<retry_timer, slept>>
     ELSE /\ pipe_pc' = "retry_sleep"
          /\ retry_timer' = RetryDelayFor(o)
          /\ slept' = 0
          /\ UNCHANGED <<pipe_exc, pipe_cancel, cf_session, wrap_pc, h_pc, proc_shutdown,
                         log_buffer, flush_age, output_file, stop_pc, stop_batch, grace,
                         batches>>
  /\ UNCHANGED <<shutdown_event, bg_pc, bg_timer, bg_batch, next_id, analysed, rec_ids, parsed_ids, at_shutdown, overdue>>
  /\ UNCHANGED recvVars

\* create_instant_log_session line 87: the sleep is over, the next request is sent
RetryWake ==
  /\ pipe_pc = "retry_sleep"
  /\ ~pipe_cancel
  /\ retry_timer = 0
  /\ pipe_pc' = "post"
  /\ UNCHANGED <<shutdown_event, cf_session, pipe_cancel, pipe_exc, retry_timer, slept,
                 last_resp, wrap_pc, h_pc, procVars, histVars>>
  /\ UNCHANGED recvVars

\* CancelledError is thrown into the pipeline task at the await it is suspended at.
\* In create_instant_log_session no except clause catches it; run_log_pipeline
\* catches it (line 128) and runs its finally block.  Inside the finally block's
\* stop() nothing catches it: the task ends cancelled, the HTTP session stays open,
\* and a wait_for that was cancelled cancels the background task it waited for.
PipelineCancelled ==
  /\ pipe_cancel
  /\ pipe_pc \in {"post", "retry_sleep", "stop"}
  /\ IF pipe_pc = "stop"
     THEN /\ stop_pc' = [stop_pc EXCEPT ![PipeCaller] = "raised"]
          /\ bg_pc' = IF stop_pc[PipeCaller] = "wait_bg" /\ BgRunning THEN "cancelled" ELSE bg_pc
          /\ pipe_pc' = "cancelled"
          /\ pipe_cancel' = FALSE
          /\ UNCHANGED <<pipe_exc, proc_shutdown, log_buffer, flush_age, output_file,
                         stop_batch, grace, batches, h_pc, cf_session, wrap_pc>>
     ELSE /\ PipelineFinally("none")
          /\ UNCHANGED bg_pc
  /\ UNCHANGED <<shutdown_event, retry_timer, slept, last_resp, bg_timer, bg_batch,
                 next_id, analysed, rec_ids, parsed_ids, at_shutdown, overdue>>
  /\ UNCHANGED recvVars

\* ------------------------------------------ _handle_shutdown_signal (main_logger.py)

\* main_async_wrapper line 150: a signal creates a task running the handler
Signal(h) ==
  /\ h_pc[h] = "idle"
  /\ \A g \in Handlers : g < h => h_pc[g] # "idle"
  /\ wrap_pc \in {"await_pipeline", "stop"}
  /\ h_pc' = [h_pc EXCEPT ![h] = "start"]
  /\ UNCHANGED <<shutdown_event, cf_session, pipe_pc, pipe_cancel, pipe_exc, retry_timer,
                 slept, last_resp, wrap_pc, procVars, histVars>>
  /\ UNCHANGED recvVars

\* variant of the handler's test that never finds a shutdown in progress
NeverInProgress(e) == FALSE

\* _handle_shutdown_signal line 18: shutdown_event.is_set()
ShutdownInProgress(e) == e

\* _handle_shutdown_signal lines 16-31: return when shutdown is in progress, else
\* set the event and call stop() of the log processor
HandlerBegin(h) ==
  /\ h_pc[h] = "start"
  /\ pipe_pc # "start"
  /\ IF ShutdownInProgress(shutdown_event)
     THEN /\ h_pc' = [h_pc EXCEPT ![h] = "done"]
          /\ UNCHANGED <<shutdown_event, proc_shutdown, log_buffer, flush_age, output_file,
                         stop_pc, stop_batch, grace, batches, pipe_pc, pipe_cancel,
                         cf_session, wrap_pc, at_shutdown>>
     ELSE /\ shutdown_event' = TRUE
          /\ at_shutdown' = log_buffer
          /\ StopCall(h)
  /\ UNCHANGED <<pipe_exc, retry_timer, slept, last_resp, bg_pc, bg_timer, bg_batch,
                 next_id, analysed, rec_ids, parsed_ids, overdue>>
  /\ UNCHANGED recvVars

\* _handle_shutdown_signal lines 43-51: the gather of the cancelled tasks is over;
\* close the HTTP session
HandlerGatherDone(h) ==
  /\ h_pc[h] = "gather"
  /\ PipeOver
  /\ cf_session' = ClosedSession(cf_session)
  /\ h_pc' = [h_pc EXCEPT ![h] = "done"]
  /\ UNCHANGED <<shutdown_event, pipe_pc, pipe_cancel, pipe_exc, retry_timer, slept,
                 last_resp, wrap_pc, procVars, histVars>>
  /\ UNCHANGED recvVars

\* ----------------------------------------------- main_async_wrapper (main_logger.py)

\* variant of the wrapper's finally that flips the event
EventFlipped(e) == ~e

\* main_async_wrapper lines 163-165: the event is set when it is not
EventEnsured(e) == IF ~e THEN TRUE ELSE e

\* main_async_wrapper lines 155-168: the awaited pipeline task is over; the finally
\* block sets the event when nobody did and stops the processor when nobody did
WrapperFinally ==
  /\ wrap_pc = "await_pipeline"
  /\ PipeOver
  /\ shutdown_event' = EventEnsured(shutdown_event)
  /\ at_shutdown' = IF shutdown_event THEN at_shutdown ELSE log_buffer
  /\ IF ~shutdown_event /\ ~proc_shutdown
     THEN StopCall(WrapCaller)
     ELSE /\ wrap_pc' = "returned"
          /\ UNCHANGED <<proc_shutdown, log_buffer, flush_age, output_file, stop_pc,
                         stop_batch, grace, batches, h_pc, pipe_pc, pipe_cancel, cf_session>>
  /\ UNCHANGED <<pipe_exc, retry_timer, slept, last_resp, bg_pc, bg_timer, bg_batch,
                 next_id, analysed, rec_ids, parsed_ids, overdue>>
  /\ UNCHANGED recvVars

\* asyncio.run after main_async_wrapper is over: every task that is not done is
\* cancelled and run to its end (none of them catches the CancelledError), the loop
\* is closed; main_logger lines 182-188 close an HTTP session left open
ProcessExit ==
  /\ wrap_pc = "returned"
  /\ wrap_pc' = "exited"
  /\ h_pc' = [h \in Handlers |->
                IF h_pc[h] \in {"start", "stop", "gather"} THEN "cancelled" ELSE h_pc[h]]
  /\ stop_pc' = [c \in Callers |->
                IF stop_pc[c] \in {"wait_bg", "analyze"} THEN "raised" ELSE stop_pc[c]]
  /\ bg_pc' = IF BgRunning THEN "cancelled" ELSE bg_pc
  /\ cf_session' = ClosedSession(cf_session)
  /\ UNCHANGED <<shutdown_event, pipe_pc, pipe_cancel, pipe_exc, retry_timer, slept,
                 last_resp, proc_shutdown, log_buffer, flush_age, output_file, bg_timer,
                 bg_batch, stop_batch, grace, histVars>>
  /\ UNCHANGED recvVars

\* ------------------------------- WebSocketLogReceiver (websocket_handler.py)

\* a line of a frame: a JSON object with a whitelisted field, a JSON value without
\* one, or text that is no JSON
LineKinds == {"rec", "nofield", "bad"}

\* the frames of at most MaxLines newline-separated lines
Frames == UNION {[1..n -> LineKinds] : n \in 1..MaxLines}

\* handle_log_message line 282: json.loads(message_str) of the whole frame.  It
\* returns for one JSON value alone and raises JSONDecodeError for anything else,
\* a second line ("Extra data") included.
JsonLoads(f) == IF Len(f) = 1 /\ f[1] # "bad" THEN f[1] ELSE "error"

\* the lines of f that are well-formed JSON, in line order
WellFormed(f) == {i \in 1..Len(f) : f[i] # "bad"}

\* history: the identity given to line i of a frame received when next_id is n
LineId(f, i, n) == n + Cardinality({j \in WellFormed(f) : j < i})

\* variant of the append that puts the new event in front of the batch
AfterPrepend(buf, parsed, id) == IF parsed = "rec" THEN <<id>> \o buf ELSE buf

\* handle_log_message lines 286-287: the event built from the whitelisted fields
\* is appended when it is not empty
AfterAppend(buf, parsed, id) == IF parsed = "rec" THEN Append(buf, id) ELSE buf

\* handle_log_message line 288
SizeReached(buf) == Len(buf) >= MAX_LOG_BATCH_SIZE

\* variant of the hand-over that passes the list object itself instead of a
\* copy: the clear of line 271 empties what the analyzer was given
BatchAliased(buf) == << >>

\* process_and_flush_batch line 270: batch_to_analyze = list(PROCESSED_LOG_BATCH)
BatchToAnalyze(buf) == buf

\* variant of the clear that leaves the batch as it was
BatchKept(buf) == buf

\* process_and_flush_batch line 271: PROCESSED_LOG_BATCH.clear()
BatchAfterClear(buf) == << >>

\* process_and_flush_batch lines 269-274 for a batch holding buf, up to the await
FlushOf(buf) ==
  /\ batches' = Append(batches, BatchToAnalyze(buf))
  /\ PROCESSED_LOG_BATCH' = BatchAfterClear(buf)
  /\ batch_age' = 0
  /\ recv_batch' = Len(batches) + 1
  /\ overdue' = 0

\* variant of the age trigger without the test for an empty batch
AgeOnly(buf, age) == age >= BATCH_FLUSH_INTERVAL_SECONDS

\* _connect_and_listen line 339: the age trigger of the receive timeout
AgeReached(buf, age) == buf # << >> /\ age >= BATCH_FLUSH_INTERVAL_SECONDS

\* _connect_and_listen lines 328-329
RenewalDue(age) == age > SESSION_RENEWAL_INTERVAL_MINUTES

RecvOver == recv_pc \in {"stopped", "failed", "cancelled"}

\* the awaits of the receiver task
RecvAwaits == {"connecting", "recv", "err_sleep", "handle_flush", "timeout_flush",
               "final_flush", "closing"}

\* start lines 409-411 and _connect_and_listen lines 310-321: nothing happens when
\* shutdown was requested; else the log file is opened (or not) and the connection
\* is requested
RecvStart(opened) ==
  /\ recv_pc = "start"
  /\ IF shutdown_event
     THEN /\ recv_pc' = "stopped"
          /\ UNCHANGED file_handle
     ELSE /\ recv_pc' = "connecting"
          /\ file_handle' = IF opened THEN "open" ELSE "none"
  /\ UNCHANGED <<recv_cancel, conn, PROCESSED_LOG_BATCH, batch_age, session_age,
                 recv_timer, recv_batch, exit_reason, sessions, cancels, abandoned>>
  /\ UNCHANGED <<mainVars, procVars, histVars>>

\* _connect_and_listen lines 319-324: connected; the session clock and
\* LAST_BATCH_FLUSH_TIME start again
RecvConnected ==
  /\ recv_pc = "connecting"
  /\ ~recv_cancel
  /\ conn' = "open"
  /\ session_age' = 0
  /\ batch_age' = 0
  /\ recv_pc' = "loop"
  /\ UNCHANGED <<recv_cancel, file_handle, PROCESSED_LOG_BATCH, recv_timer, recv_batch,
                 exit_reason, sessions, cancels, abandoned>>
  /\ UNCHANGED <<mainVars, procVars, histVars>>

\* _connect_and_listen lines 359-370: the connection could not be opened
RecvConnectFailed ==
  /\ recv_pc = "connecting"
  /\ ~recv_cancel
  /\ recv_pc' = "finally"
  /\ exit_reason' = "connect_failed"
  /\ UNCHANGED <<recv_cancel, conn, file_handle, PROCESSED_LOG_BATCH, batch_age,
                 session_age, recv_timer, recv_batch, sessions, cancels, abandoned>>
  /\ UNCHANGED <<mainVars, procVars, histVars>>

\* _connect_and_listen lines 326-334: the loop test, the renewal test, the next
\* receive with its timeout of one second
RecvLoopTop ==
  /\ recv_pc = "loop"
  /\ IF shutdown_event
     THEN recv_pc' = "finally" /\ exit_reason' = "shutdown" /\ UNCHANGED recv_timer
     ELSE IF RenewalDue(session_age)
     THEN recv_pc' = "finally" /\ exit_reason' = "renewal" /\ UNCHANGED recv_timer
     ELSE recv_pc' = "recv" /\ recv_timer' = 1 /\ UNCHANGED exit_reason
  /\ UNCHANGED <<recv_cancel, conn, file_handle, PROCESSED_LOG_BATCH, batch_age,
                 session_age, recv_batch, sessions, cancels, abandoned>>
  /\ UNCHANGED <<mainVars, procVars, histVars>>

\* variant of the receive in which a frame that does not parse ends the loop
RecvMessageAbort(f, written) ==
  /\ recv_pc = "recv"
  /\ ~recv_cancel
  /\ conn = "open"
  /\ next_id + Cardinality(WellFormed(f)) <= MaxRecords + 1
  /\ (file_handle # "open" => written)
  /\ LET parsed == JsonLoads(f)
         id == LineId(f, 1, next_id)
         buf == IF parsed # "error" /\ written
                THEN AfterAppend(PROCESSED_LOG_BATCH, parsed, id)
                ELSE PROCESSED_LOG_BATCH
     IN /\ next_id' = next_id + Cardinality(WellFormed(f))
        /\ rec_ids' = rec_ids \cup {LineId(f, i, next_id) : i \in {j \in 1..Len(f) : f[j] = "rec"}}
        /\ parsed_ids' = parsed_ids \cup (IF parsed = "rec" THEN {id} ELSE {})
        /\ IF parsed # "error" /\ written /\ SizeReached(buf)
           THEN /\ FlushOf(buf)
                /\ recv_pc' = "handle_flush"
           ELSE /\ PROCESSED_LOG_BATCH' = buf
                /\ recv_pc' = IF parsed = "error" THEN "finally" ELSE "loop"
                /\ overdue' = IF buf = PROCESSED_LOG_BATCH THEN overdue ELSE 0
                /\ UNCHANGED <<batches, batch_age, recv_batch>>
  /\ UNCHANGED <<recv_cancel, conn, file_handle, session_age, recv_timer, exit_reason,
                 sessions, cancels, abandoned, analysed, at_shutdown>>
  /\ UNCHANGED <<mainVars, procVars>>

\* _connect_and_listen lines 334-336 and handle_log_message lines 278-296: frame f
\* is received and handled; written tells whether the write to the log file
\* succeeds.  Every exception but a cancellation is caught in handle_log_message.
RecvMessage(f, written) ==
  /\ recv_pc = "recv"
  /\ ~recv_cancel
  /\ conn = "open"
  /\ next_id + Cardinality(WellFormed(f)) <= MaxRecords + 1
  /\ (file_handle # "open" => written)
  /\ LET parsed == JsonLoads(f)
         id == LineId(f, 1, next_id)
         buf == IF parsed # "error" /\ written
                THEN AfterAppend(PROCESSED_LOG_BATCH, parsed, id)
                ELSE PROCESSED_LOG_BATCH
     IN /\ next_id' = next_id + Cardinality(WellFormed(f))
        /\ rec_ids' = rec_ids \cup {LineId(f, i, next_id) : i \in {j \in 1..Len(f) : f[j] = "rec"}}
        /\ parsed_ids' = parsed_ids \cup (IF parsed = "rec" THEN {id} ELSE {})
        /\ IF parsed # "error" /\ written /\ SizeReached(buf)
           THEN /\ FlushOf(buf)
                /\ recv_pc' = "handle_flush"
           ELSE /\ PROCESSED_LOG_BATCH' = buf
                /\ recv_pc' = "loop"
                /\ overdue' = IF buf = PROCESSED_LOG_BATCH THEN overdue ELSE 0
                /\ UNCHANGED <<batches, batch_age, recv_batch>>
  /\ UNCHANGED <<recv_cancel, conn, file_handle, session_age, recv_timer, exit_reason,
                 sessions, cancels, abandoned, analysed, at_shutdown>>
  /\ UNCHANGED <<mainVars, procVars>>

\* _connect_and_listen lines 337-342: no frame within one second; flush a batch
\* that is old enough
RecvTimeout ==
  /\ recv_pc = "recv"
  /\ ~recv_cancel
  /\ recv_timer = 0
  /\ IF AgeReached(PROCESSED_LOG_BATCH, batch_age)
     THEN /\ FlushOf(PROCESSED_LOG_BATCH)
          /\ recv_pc' = "timeout_flush"
     ELSE /\ recv_pc' = "loop"
          /\ UNCHANGED <<PROCESSED_LOG_BATCH, batches, batch_age, recv_batch, overdue>>
  /\ UNCHANGED <<recv_cancel, conn, file_handle, session_age, recv_timer, exit_reason,
                 sessions, cancels, abandoned, next_id, analysed, rec_ids, parsed_ids,
                 at_shutdown>>
  /\ UNCHANGED <<mainVars, procVars>>

\* _connect_and_listen lines 343-348: the server closed the connection, normally
\* or with an error
RecvClosed(how) ==
  /\ recv_pc = "recv"
  /\ ~recv_cancel
  /\ conn = "open"
  /\ conn' = "closed"
  /\ recv_pc' = "finally"
  /\ exit_reason' = how
  /\ UNCHANGED <<recv_cancel, file_handle, PROCESSED_LOG_BATCH, batch_age, session_age,
                 recv_timer, recv_batch, sessions, cancels, abandoned>>
  /\ UNCHANGED <<mainVars, procVars, histVars>>

\* _connect_and_listen lines 352-357: recv raised another exception; sleep a
\* second and go on
RecvError ==
  /\ recv_pc = "recv"
  /\ ~recv_cancel
  /\ recv_pc' = "err_sleep"
  /\ recv_timer' = 1
  /\ UNCHANGED <<recv_cancel, conn, file_handle, PROCESSED_LOG_BATCH, batch_age,
                 session_age, recv_batch, exit_reason, sessions, cancels, abandoned>>
  /\ UNCHANGED <<mainVars, procVars, histVars>>

\* _connect_and_listen lines 356-357
RecvErrSleepDone ==
  /\ recv_pc = "err_sleep"
  /\ ~recv_cancel
  /\ recv_timer = 0
  /\ recv_pc' = "loop"
  /\ UNCHANGED <<recv_cancel, conn, file_handle, PROCESSED_LOG_BATCH, batch_age,
                 session_age, recv_timer, recv_batch, exit_reason, sessions, cancels, abandoned>>
  /\ UNCHANGED <<mainVars, procVars, histVars>>

\* variant of the flush that puts the batch back into the buffer when its
\* analysis failed
RecvAnalyzedRequeue(ok) ==
  /\ recv_pc \in {"handle_flush", "timeout_flush", "final_flush"}
  /\ ~recv_cancel
  /\ analysed' = IF ok THEN analysed \cup {recv_batch} ELSE analysed
  /\ PROCESSED_LOG_BATCH' = IF ok THEN PROCESSED_LOG_BATCH
                            ELSE batches[recv_batch] \o PROCESSED_LOG_BATCH
  /\ recv_pc' = IF recv_pc = "handle_flush" THEN "loop"
                ELSE IF recv_pc = "timeout_flush" THEN (IF ok THEN "loop" ELSE "finally")
                ELSE (IF ok THEN "close" ELSE "failed")
  /\ exit_reason' = IF recv_pc = "timeout_flush" /\ ~ok THEN "outer_error" ELSE exit_reason
  /\ UNCHANGED <<recv_cancel, conn, file_handle, batch_age,
                 session_age, recv_timer, recv_batch, sessions, cancels, abandoned>>
  /\ UNCHANGED <<mainVars, procVars, next_id, batches, rec_ids, parsed_ids, at_shutdown,
                 overdue>>

\* process_and_flush_batch lines 274-275: analyze_batch_with_ai returned (ok) or
\* raised.  It raises NameError whenever the model call raises: its except clauses
\* (lines 187, 198) name google.api_core, and the module binds no name google.
\* Raised in handle_log_message the error is caught there (line 292); raised in
\* the timeout branch it reaches the outer handler (line 367); raised in the
\* finally block (line 375) it leaves _connect_and_listen.
RecvAnalyzed(ok) ==
  /\ recv_pc \in {"handle_flush", "timeout_flush", "final_flush"}
  /\ ~recv_cancel
  /\ analysed' = IF ok THEN analysed \cup {recv_batch} ELSE analysed
  /\ recv_pc' = IF recv_pc = "handle_flush" THEN "loop"
                ELSE IF recv_pc = "timeout_flush" THEN (IF ok THEN "loop" ELSE "finally")
                ELSE (IF ok THEN "close" ELSE "failed")
  /\ exit_reason' = IF recv_pc = "timeout_flush" /\ ~ok THEN "outer_error" ELSE exit_reason
  /\ UNCHANGED <<recv_cancel, conn, file_handle, PROCESSED_LOG_BATCH, batch_age,
                 session_age, recv_timer, recv_batch, sessions, cancels, abandoned>>
  /\ UNCHANGED <<mainVars, procVars, next_id, batches, rec_ids, parsed_ids, at_shutdown,
                 overdue>>

\* variant of the finally block that goes to the close without the final flush
RecvFinallyNoFlush ==
  /\ recv_pc = "finally"
  /\ recv_pc' = "close"
  /\ UNCHANGED <<PROCESSED_LOG_BATCH, batches, batch_age, recv_batch, overdue>>
  /\ UNCHANGED <<recv_cancel, conn, file_handle, session_age, recv_timer, exit_reason,
                 sessions, cancels, abandoned, next_id, analysed, rec_ids, parsed_ids,
                 at_shutdown>>
  /\ UNCHANGED <<mainVars, procVars>>

\* _connect_and_listen lines 371-375: the finally block flushes what is buffered
RecvFinally ==
  /\ recv_pc = "finally"
  /\ IF PROCESSED_LOG_BATCH # << >>
     THEN /\ FlushOf(PROCESSED_LOG_BATCH)
          /\ recv_pc' = "final_flush"
     ELSE /\ recv_pc' = "close"
          /\ UNCHANGED <<PROCESSED_LOG_BATCH, batches, batch_age, recv_batch, overdue>>
  /\ UNCHANGED <<recv_cancel, conn, file_handle, session_age, recv_timer, exit_reason,
                 sessions, cancels, abandoned, next_id, analysed, rec_ids, parsed_ids,
                 at_shutdown>>
  /\ UNCHANGED <<mainVars, procVars>>

\* the log file handle after lines 400-407
ClosedHandle(h) == IF h = "open" THEN "closed" ELSE h

\* _connect_and_listen lines 377-407: close an open connection (awaited), then
\* close the log file
RecvCloseStep ==
  /\ recv_pc = "close"
  /\ IF conn = "open"
     THEN recv_pc' = "closing" /\ UNCHANGED file_handle
     ELSE recv_pc' = "stopped" /\ file_handle' = ClosedHandle(file_handle)
  /\ UNCHANGED <<recv_cancel, conn, PROCESSED_LOG_BATCH, batch_age, session_age,
                 recv_timer, recv_batch, exit_reason, sessions, cancels, abandoned>>
  /\ UNCHANGED <<mainVars, procVars, histVars>>

\* _connect_and_listen lines 381-407: close(code=1000) ended within 5 s (closed)
\* or timed out or raised (both caught); the log file is closed, the run is over
RecvCloseDone(closed) ==
  /\ recv_pc = "closing"
  /\ ~recv_cancel
  /\ conn' = IF closed THEN "closed" ELSE conn
  /\ file_handle' = ClosedHandle(file_handle)
  /\ recv_pc' = "stopped"
  /\ UNCHANGED <<recv_cancel, PROCESSED_LOG_BATCH, batch_age, session_age, recv_timer,
                 recv_batch, exit_reason, sessions, cancels, abandoned>>
  /\ UNCHANGED <<mainVars, procVars, histVars>>

\* CancelledError is thrown into the receiver task at the await it is suspended
\* at.  At connect, recv and the error sleep the outer handler (line 365) catches
\* it and the finally block runs.  Inside analyze_batch_with_ai the except clause
\* of line 187 is evaluated first and raises NameError in its place, which goes
\* the way of an analyzer error.  At the close of the connection nothing catches
\* it: the task ends cancelled with the log file open.
RecvCancelled ==
  /\ recv_cancel
  /\ recv_pc \in RecvAwaits
  /\ recv_cancel' = FALSE
  /\ recv_pc' = IF recv_pc \in {"connecting", "recv", "err_sleep", "timeout_flush"}
                THEN "finally"
                ELSE IF recv_pc = "handle_flush" THEN "loop"
                ELSE IF recv_pc = "final_flush" THEN "failed"
                ELSE "cancelled"
  /\ exit_reason' = IF recv_pc \in {"connecting", "recv", "err_sleep"} THEN "cancelled"
                    ELSE IF recv_pc = "timeout_flush" THEN "outer_error"
                    ELSE exit_reason
  /\ UNCHANGED <<conn, file_handle, PROCESSED_LOG_BATCH, batch_age, session_age,
                 recv_timer, recv_batch, sessions, cancels, abandoned>>
  /\ UNCHANGED <<mainVars, procVars, histVars>>

\* the owner of the receiver sets the shutdown event it passed to __init__
OwnerSetShutdown ==
  /\ recv_pc # "none"
  /\ ~shutdown_event
  /\ shutdown_event' = TRUE
  /\ at_shutdown' = PROCESSED_LOG_BATCH
  /\ UNCHANGED <<cf_session, pipe_pc, pipe_cancel, pipe_exc, retry_timer, slept,
                 last_resp, wrap_pc, h_pc>>
  /\ UNCHANGED <<procVars, recvVars, next_id, batches, analysed, rec_ids, parsed_ids,
                 overdue>>

\* the owner of the receiver task calls cancel() on it
OwnerCancel ==
  /\ recv_pc # "none"
  /\ ~RecvOver
  /\ ~recv_cancel
  /\ cancels < MaxCancels
  /\ recv_cancel' = TRUE
  /\ cancels' = cancels + 1
  /\ UNCHANGED <<recv_pc, conn, file_handle, PROCESSED_LOG_BATCH, batch_age,
                 session_age, recv_timer, recv_batch, exit_reason, sessions, abandoned>>
  /\ UNCHANGED <<mainVars, procVars, histVars>>

\* the run of the receiver is going on: its task was started and is not over
RunLive(pc) == pc \notin {"none", "start", "stopped", "failed", "cancelled"}

\* variant of the owner that starts the next receiver whatever the one before does
RunStarted(pc) == pc # "none"

\* the owner awaits the receiver task before anything else, as run_log_pipeline
\* does at main_logger.py lines 85-89
PreviousRunEnded(pc) == pc \in {"stopped", "failed", "cancelled"}

\* the owner builds the next receiver (__init__ lines 299-305) and starts it once
\* the run of the one before is over; the batch and its flush time are module
\* globals and stay
OwnerRestart ==
  /\ PreviousRunEnded(recv_pc)
  /\ abandoned' = IF RunLive(recv_pc) THEN abandoned \cup {sessions} ELSE abandoned
  /\ sessions < MaxSessions
  /\ sessions' = sessions + 1
  /\ recv_pc' = "start"
  /\ recv_cancel' = FALSE
  /\ conn' = "none"
  /\ file_handle' = "none"
  /\ exit_reason' = "none"
  /\ UNCHANGED <<PROCESSED_LOG_BATCH, batch_age, session_age, recv_timer, recv_batch,
                 cancels>>
  /\ UNCHANGED <<mainVars, procVars, histVars>>

\* ---------------------------------------------------------------------- time

\* a task of the main program is ready to run: the event loop runs it before any
\* further second passes
MainReady ==
  \/ pipe_pc = "start"
  \/ pipe_cancel /\ ~PipeOver
  \/ pipe_pc = "retry_sleep" /\ retry_timer = 0
  \/ bg_pc = "sleep" /\ bg_timer = 0
  \/ \E c \in Callers : stop_pc[c] = "wait_bg" /\ (~BgRunning \/ grace[c] = 0)
  \/ \E h \in Handlers : h_pc[h] \in {"start", "gather"} /\ (h_pc[h] = "gather" => PipeOver)
  \/ wrap_pc = "await_pipeline" /\ PipeOver
  \/ wrap_pc = "returned"

\* the receiver task is ready to run
RecvReady ==
  \/ recv_pc \in {"start", "loop", "finally", "close"}
  \/ recv_cancel /\ recv_pc \in RecvAwaits
  \/ recv_pc \in {"recv", "err_sleep"} /\ recv_timer = 0

Dec(n) == IF n > 0 THEN n - 1 ELSE 0

UpTo(n, cap) == IF n < cap THEN n + 1 ELSE cap

\* one second passes
Tick ==
  /\ \/ wrap_pc \in {"await_pipeline", "stop"} /\ ~MainReady
     \/ recv_pc # "none" /\ ~RecvOver /\ ~RecvReady
  /\ flush_age' = UpTo(flush_age, BATCH_FLUSH_INTERVAL_SECONDS)
  /\ bg_timer' = IF bg_pc = "sleep" THEN Dec(bg_timer) ELSE bg_timer
  /\ retry_timer' = IF pipe_pc = "retry_sleep" THEN Dec(retry_timer) ELSE retry_timer
  /\ slept' = IF pipe_pc = "retry_sleep" THEN UpTo(slept, RETRY_DELAY_SECONDS) ELSE slept
  /\ grace' = [c \in Callers |-> IF stop_pc[c] = "wait_bg" THEN Dec(grace[c]) ELSE grace[c]]
  /\ batch_age' = UpTo(batch_age, BATCH_FLUSH_INTERVAL_SECONDS)
  /\ session_age' = UpTo(session_age, SESSION_RENEWAL_INTERVAL_MINUTES + 1)
  /\ recv_timer' = IF recv_pc \in {"recv", "err_sleep"} THEN Dec(recv_timer) ELSE recv_timer
  /\ overdue' = IF recv_pc \in {"recv", "err_sleep"}
                    /\ AgeReached(PROCESSED_LOG_BATCH, batch_age)
                 THEN UpTo(overdue, MaxOverdue)
                 ELSE overdue
  /\ UNCHANGED <<shutdown_event, cf_session, pipe_pc, pipe_cancel, pipe_exc, last_resp,
                 wrap_pc, h_pc, proc_shutdown, log_buffer, output_file, bg_pc,
                 bg_batch, stop_pc, stop_batch, recv_pc, recv_cancel, conn, file_handle,
                 PROCESSED_LOG_BATCH, recv_batch, exit_reason, sessions, cancels, abandoned,
                 next_id, batches, analysed, rec_ids, parsed_ids, at_shutdown>>

\* ------------------------------------------------------------- specification

\* websocket_handler.py lines 264-265 at import; no receiver exists
RecvIdle ==
  /\ recv_pc = "none"
  /\ recv_cancel = FALSE
  /\ conn = "none"
  /\ file_handle = "none"
  /\ PROCESSED_LOG_BATCH = << >>
  /\ batch_age = 0
  /\ session_age = 0
  /\ recv_timer = 0
  /\ recv_batch = 0
  /\ exit_reason = "none"
  /\ sessions = 0
  /\ cancels = 0
  /\ abandoned = {}

HistInit ==
  /\ next_id = 1
  /\ batches = << >>
  /\ analysed = {}
  /\ rec_ids = {}
  /\ parsed_ids = {}
  /\ at_shutdown = << >>
  /\ overdue = 0

\* python main_logger.py: main_async_wrapper has created the pipeline task
InitMain ==
  /\ shutdown_event = FALSE
  /\ cf_session = "none"
  /\ pipe_pc = "start"
  /\ pipe_cancel = FALSE
  /\ pipe_exc = "none"
  /\ retry_timer = 0
  /\ slept = 0
  /\ last_resp = "none"
  /\ wrap_pc = "await_pipeline"
  /\ h_pc = [h \in Handlers |-> "idle"]
  /\ proc_shutdown = FALSE
  /\ log_buffer = << >>
  /\ flush_age = 0
  /\ output_file = "open"
  /\ bg_pc = "none"
  /\ bg_timer = 0
  /\ bg_batch = 0
  /\ stop_pc = [c \in Callers |-> "none"]
  /\ stop_batch = [c \in Callers |-> 0]
  /\ grace = [c \in Callers |-> 0]
  /\ RecvIdle
  /\ HistInit

\* WebSocketLogReceiver(url, id, event).start() run as a task; main_logger.py is
\* not running
InitRecv ==
  /\ shutdown_event = FALSE
  /\ cf_session = "none"
  /\ pipe_pc = "none"
  /\ pipe_cancel = FALSE
  /\ pipe_exc = "none"
  /\ retry_timer = 0
  /\ slept = 0
  /\ last_resp = "none"
  /\ wrap_pc = "none"
  /\ h_pc = [h \in Handlers |-> "idle"]
  /\ proc_shutdown = FALSE
  /\ log_buffer = << >>
  /\ flush_age = 0
  /\ output_file = "closed"
  /\ bg_pc = "none"
  /\ bg_timer = 0
  /\ bg_batch = 0
  /\ stop_pc = [c \in Callers |-> "none"]
  /\ stop_batch = [c \in Callers |-> 0]
  /\ grace = [c \in Callers |-> 0]
  /\ recv_pc = "start"
  /\ recv_cancel = FALSE
  /\ conn = "none"
  /\ file_handle = "none"
  /\ PROCESSED_LOG_BATCH = << >>
  /\ batch_age = 0
  /\ session_age = 0
  /\ recv_timer = 0
  /\ recv_batch = 0
  /\ exit_reason = "none"
  /\ sessions = 1
  /\ cancels = 0
  /\ abandoned = {}
  /\ HistInit

Init == InitMain \/ InitRecv

Next ==
  \/ PipelineStart
  \/ \E o \in Outcomes : PostResponse(o)
  \/ RetryWake
  \/ PipelineCancelled
  \/ \E h \in Handlers : Signal(h)
  \/ \E h \in Handlers : HandlerBegin(h)
  \/ \E h \in Handlers : HandlerGatherDone(h)
  \/ WrapperFinally
  \/ ProcessExit
  \/ AddLogEntry
  \/ BgWake
  \/ BgAnalyzeReturn
  \/ \E c \in Callers : StopWaitDone(c)
  \/ \E c \in Callers : StopWaitTimeout(c)
  \/ \E c \in Callers : StopAnalyzeReturn(c)
  \/ \E opened \in BOOLEAN : RecvStart(opened)
  \/ RecvConnected
  \/ RecvConnectFailed
  \/ RecvLoopTop
  \/ \E f \in Frames, written \in BOOLEAN : RecvMessage(f, written)
  \/ RecvTimeout
  \/ \E how \in {"closed_ok", "closed_error"} : RecvClosed(how)
  \/ RecvError
  \/ RecvErrSleepDone
  \/ \E ok \in BOOLEAN : RecvAnalyzed(ok)
  \/ RecvFinally
  \/ RecvCloseStep
  \/ \E closed \in BOOLEAN : RecvCloseDone(closed)
  \/ RecvCancelled
  \/ OwnerSetShutdown
  \/ OwnerCancel
  \/ OwnerRestart
  \/ Tick

Spec == Init /\ [][Next]_vars

\* main_logger.py run as a program, alone
NextMain ==
  \/ PipelineStart
  \/ \E o \in Outcomes : PostResponse(o)
  \/ RetryWake
  \/ PipelineCancelled
  \/ \E h \in Handlers : Signal(h)
  \/ \E h \in Handlers : HandlerBegin(h)
  \/ \E h \in Handlers : HandlerGatherDone(h)
  \/ WrapperFinally
  \/ ProcessExit
  \/ AddLogEntry
  \/ BgWake
  \/ BgAnalyzeReturn
  \/ \E c \in Callers : StopWaitDone(c)
  \/ \E c \in Callers : StopWaitTimeout(c)
  \/ \E c \in Callers : StopAnalyzeReturn(c)
  \/ Tick

\* What the event loop guarantees: a task that is ready is run, time passes, a
\* timer that expired fires, and the POST of cloudflare_client.py line 57 ends
\* within its timeout=30 with a response or an exception.  Nothing bounds
\* send_message_async (gemini_client.py line 103), so the return of an analyzer
\* call is not guaranteed; signals and add_log_entry calls are inputs.
MainFairness ==
  /\ WF_vars(PipelineStart)
  /\ WF_vars(\E o \in Outcomes : PostResponse(o))
  /\ WF_vars(RetryWake)
  /\ WF_vars(PipelineCancelled)
  /\ WF_vars(\E h \in Handlers : HandlerBegin(h))
  /\ WF_vars(\E h \in Handlers : HandlerGatherDone(h))
  /\ WF_vars(WrapperFinally)
  /\ WF_vars(ProcessExit)
  /\ WF_vars(BgWake)
  /\ WF_vars(\E c \in Callers : StopWaitDone(c))
  /\ WF_vars(\E c \in Callers : StopWaitTimeout(c))
  /\ WF_vars(Tick)

MainSpec == InitMain /\ [][NextMain]_vars /\ MainFairness

\* ------------------------------------------------------------------ properties

Range(q) == {q[k] : k \in 1..Len(q)}

\* the records handed to the analyzer so far
BatchedIds == UNION {Range(batches[i]) : i \in 1..Len(batches)}

\* the run is over: the process exited, or the receiver task ended
RunOver == wrap_pc = "exited" \/ RecvOver

\* C1: whatever arrives and whichever trigger flushes (size, age, connector exit,
\* shutdown), no record is in two batches handed to the analyzer, nor twice in one.
C1_NoRecordInTwoBatches ==
  \A i, j \in 1..Len(batches) :
    \A k \in 1..Len(batches[i]), l \in 1..Len(batches[j]) :
      batches[i][k] = batches[j][l] => (i = j /\ k = l)

\* a size-triggered flush was followed by the final flush of a connector run
C1_Witness ==
  /\ recv_pc = "stopped"
  /\ Len(batches) >= 2
  /\ Len(batches[1]) = MAX_LOG_BATCH_SIZE

\* C2: every record that parsed is in some batch handed to the analyzer by the
\* time the run is over, whatever the interleaving of arrivals, flushes,
\* connector exits and shutdown.
C2_EveryParsedRecordBatched == RunOver => parsed_ids \subseteq BatchedIds

\* C3: when shutdown was requested with records in the LogProcessor buffer, one
\* flush holding all of them was handed to the analyzer and its analysis was over
\* when the process exited.
C3_FinalFlushBeforeExit ==
  (wrap_pc = "exited" /\ at_shutdown # << >>) =>
    \E i \in analysed : Range(at_shutdown) \subseteq Range(batches[i])

\* C4: every flush hands over the whole buffer, leaves an empty buffer and a
\* reset flush time in the step that starts the analyzer call; a batch handed over
\* never changes; a record added while an analysis is in progress is appended to
\* the new buffer and to no batch; the return of an analysis leaves the buffers
\* alone (nothing added meanwhile is lost, nothing is handed over again).
C4_SwapBeforeAnalysis ==
  [][ /\ Len(batches') >= Len(batches)
      /\ \A i \in 1..Len(batches) : batches'[i] = batches[i]
      /\ Len(batches') > Len(batches) =>
            /\ Len(batches') = Len(batches) + 1
            /\ IF recv_pc = "none"
               THEN /\ batches'[Len(batches')] = log_buffer
                    /\ log_buffer' = << >>
                    /\ flush_age' = 0
                    /\ bg_pc' = "analyze" \/ \E c \in Callers : stop_pc'[c] = "analyze"
               ELSE /\ batches'[Len(batches')] =
                         IF next_id' > next_id
                         THEN Append(PROCESSED_LOG_BATCH, next_id)
                         ELSE PROCESSED_LOG_BATCH
                    /\ PROCESSED_LOG_BATCH' = << >>
                    /\ batch_age' = 0
                    /\ recv_pc' \in {"handle_flush", "timeout_flush", "final_flush"}
      /\ (recv_pc = "none" /\ next_id' > next_id) =>
            /\ log_buffer' = Append(log_buffer, next_id)
            /\ batches' = batches
      /\ analysed' # analysed =>
            /\ log_buffer' = log_buffer
            /\ PROCESSED_LOG_BATCH' = PROCESSED_LOG_BATCH
            /\ batches' = batches
    ]_vars

\* a record was added while the background task's analyzer call is in progress
C4_Witness ==
  /\ bg_pc = "analyze"
  /\ log_buffer # << >>
  /\ batches[bg_batch] # << >>
  /\ Range(log_buffer) \cap Range(batches[bg_batch]) = {}

\* C5: the flush happens at the add that brings the buffer to MAX_LOG_BATCH_SIZE:
\* no buffer is left holding that many records, and no batch carries more.
C5_FlushAtMaxSize ==
  /\ Len(log_buffer) < MAX_LOG_BATCH_SIZE
  /\ Len(PROCESSED_LOG_BATCH) < MAX_LOG_BATCH_SIZE
  /\ \A i \in 1..Len(batches) : Len(batches[i]) <= MAX_LOG_BATCH_SIZE

\* C6: a buffer that holds records and gets no further one is flushed once its age
\* reached BATCH_FLUSH_INTERVAL_SECONDS: the receiver lets at most one second pass
\* with such a batch due; and no flush hands over an empty batch.
C6_AgeFlushWithinTick ==
  /\ overdue <= 1
  /\ \A i \in 1..Len(batches) : batches[i] # << >>

\* C7: a receiver that left its loop for renewal and was not cancelled returns
\* (after closing the connection): its run does not end with an exception.
C7_RenewalClosesAndReturns ==
  (RecvOver /\ exit_reason = "renewal" /\ cancels = 0) =>
    (recv_pc = "stopped" /\ conn # "none")

\* C8: every well-formed line of a received frame is parsed, whatever the other
\* lines of the frame are.
C8_WellFormedLinesParsed == rec_ids \subseteq parsed_ids

\* C9: a response with error code 1303 neither returns a session nor raises: the
\* call sleeps RETRY_DELAY_SECONDS, and unless it is cancelled it sends the next
\* request when the whole delay has passed.
C9_Retry1303 ==
  [][ /\ (pipe_pc = "post" /\ ~pipe_cancel /\ pipe_pc' # "post" /\ last_resp' = "err1303") =>
            /\ pipe_pc' = "retry_sleep"
            /\ retry_timer' = RETRY_DELAY_SECONDS
            /\ pipe_exc' = pipe_exc
      /\ (pipe_pc = "retry_sleep" /\ last_resp = "err1303" /\ ~pipe_cancel
             /\ pipe_pc' # "retry_sleep") =>
            /\ pipe_pc' = "post"
            /\ slept = RETRY_DELAY_SECONDS
    ]_vars

\* the request after a 1303 response is in flight, the whole delay having passed
C9_Witness ==
  /\ pipe_pc = "post"
  /\ last_resp = "err1303"
  /\ slept = RETRY_DELAY_SECONDS

\* C10: the call returns (the pipeline goes on after it) only on a response with
\* success and a destination URL; every other outcome starts a sleep of
\* RETRY_DELAY_SECONDS followed by the next request; the loop is left without a
\* session only by a cancellation.
C10_ReturnsOnlyWithSession ==
  [][ /\ (pipe_pc = "post" /\ ~pipe_cancel /\ pipe_pc' # "post") =>
            IF last_resp' = "ok"
            THEN pipe_pc' \in {"stop", "done"}
            ELSE /\ last_resp' \in Outcomes
                 /\ pipe_pc' = "retry_sleep"
                 /\ retry_timer' = RETRY_DELAY_SECONDS
                 /\ slept' = 0
      /\ (pipe_pc = "retry_sleep" /\ pipe_pc' # "retry_sleep") =>
            \/ pipe_cancel
            \/ pipe_pc' = "post" /\ slept = RETRY_DELAY_SECONDS
      /\ (pipe_pc = "post" /\ pipe_pc' \notin {"post", "retry_sleep"}) =>
            \/ pipe_cancel
            \/ last_resp' = "ok"
    ]_vars

\* a request failed, the whole delay passed, and the next request returned a session
C10_Witness ==
  /\ last_resp = "ok"
  /\ slept = RETRY_DELAY_SECONDS
  /\ pipe_pc \in {"stop", "done"}

\* the handlers that found no shutdown in progress and began the teardown
TeardownHandlers == {h \in Handlers : stop_pc[h] # "none"}

\* C11: a second shutdown request changes nothing: at most one handler ever begins
\* the teardown (stop and final flush, cancellation of the tasks, close of the HTTP
\* session), and a handler that finds the event set returns leaving every other
\* part of the state as it was.
C11_SecondSignalNoEffect ==
  /\ [](Cardinality(TeardownHandlers) <= 1)
  /\ [][ \A h \in Handlers :
           (h_pc[h] = "start" /\ shutdown_event /\ h_pc'[h] \notin {"start", "cancelled"}) =>
             /\ h_pc' = [h_pc EXCEPT ![h] = "done"]
             /\ UNCHANGED <<shutdown_event, cf_session, pipe_pc, pipe_cancel, pipe_exc,
                            retry_timer, slept, last_resp, wrap_pc, procVars, histVars>>
      ]_vars

\* one handler ran the whole teardown, another one found the event set and returned
C11_Witness ==
  \E h, g \in Handlers :
    /\ h # g
    /\ stop_pc[h] = "returned" /\ h_pc[h] = "done"
    /\ stop_pc[g] = "none" /\ h_pc[g] = "done"

\* C12: shutdown_event, once set, stays set, whoever set it.
C12_EventMonotonic == [][shutdown_event => shutdown_event']_vars

\* the wrapper's finally ran with the event already set by a handler
C12_Witness ==
  /\ shutdown_event
  /\ wrap_pc \in {"returned", "exited"}
  /\ \E h \in Handlers : stop_pc[h] # "none"

\* the receiver runs that are connecting or active
ActiveRuns == abandoned \cup (IF RunLive(recv_pc) THEN {sessions} ELSE {})

C14_ReconnectUntilShutdown ==
  pipe_pc \in {"stop", "done", "cancelled"} => shutdown_event

\* C15: once shutdown_event is set no session-creation request is sent again
\* and no receiver run is started.
C15_NoAttemptAfterShutdown ==
  [][ /\ (pipe_pc = "retry_sleep" /\ pipe_pc' = "post") => ~shutdown_event
      /\ (recv_pc = "start" /\ recv_pc' = "connecting") => ~shutdown_event
    ]_vars

\* C16: when the signal handler cancels the pipeline task the final flush is
\* over: the buffer is empty and every batch handed to the analyzer has been
\* analysed, so no record buffered at that time is lost.
C16_FlushedBeforeCancel ==
  [][ (~pipe_cancel /\ pipe_cancel') =>
        /\ log_buffer' = << >>
        /\ \A i \in 1..Len(batches') : i \in analysed'
    ]_vars

\* C17: the HTTP session is open whenever a session-creation request is in
\* flight or the retry loop is between two requests, and every step that closes
\* it finds the pipeline task over.
C17_SessionClosedAfterTasks ==
  /\ [](pipe_pc \in {"post", "retry_sleep"} => cf_session = "open")
  /\ [][(cf_session = "open" /\ cf_session' # "open") => PipeOver']_vars

\* a signal handler cancelled the pipeline inside the session-creation loop and
\* the session was closed on the way out
C17_Witness ==
  /\ \E h \in Handlers : h_pc[h] = "done" /\ stop_pc[h] = "returned"
  /\ last_resp \notin {"none", "ok"}
  /\ pipe_exc = "none"
  /\ pipe_pc = "done"
  /\ cf_session = "none"

\* C18: the output file is closed as the last step of teardown: the step that
\* closes it finds the pipeline task over and the HTTP session released.
C18_OutputClosedLast ==
  [][ (output_file = "open" /\ output_file' = "closed") =>
        (PipeOver' /\ cf_session' # "open")
    ]_vars

\* C20: a receiver run that nobody cancelled never ends with an exception
\* raised out of start().
C20_RunReturnsNormally == cancels = 0 => recv_pc # "failed"

\* C19: once shutdown is requested the process exits, every task having come
\* to its end.
C19_ShutdownTerminates == shutdown_event ~> (wrap_pc = "exited")

\* C21: a close by the remote side or an error raised by the receive ends the
\* receive loop: the receiver goes to its cleanup and never receives again on
\* that connection.
C21_NoLocalRetry ==
  /\ [](conn = "closed" => recv_pc \notin {"loop", "recv", "err_sleep"})
  /\ [][recv_pc = "err_sleep" => recv_pc' \in {"err_sleep", "finally"}]_vars

\* C22: when a run that had opened a connection is over, its log file handle is
\* released, and the connection is closed unless the close itself was tried and
\* did not end (the run then returned).
C22_ResourcesReleased ==
  (RecvOver /\ conn # "none") =>
    /\ file_handle # "open"
    /\ conn = "open" => recv_pc = "stopped"

\* the awaits of an analyzer call in the receiver
FlushAwaits == {"handle_flush", "timeout_flush", "final_flush"}

\* C23: a batch whose analysis failed is dropped.  The step that ends a failed
\* analyzer call of the receiver leaves the buffer, the flush time and the batches
\* handed over as they were; the step that ends an analyzer call of the
\* LogProcessor leaves none of the batch's records in the buffer or in another
\* batch; no buffer ever holds a record of a batch handed over.
C23_FailedBatchDropped ==
  /\ [](\A i \in 1..Len(batches) :
          /\ Range(batches[i]) \cap Range(PROCESSED_LOG_BATCH) = {}
          /\ Range(batches[i]) \cap Range(log_buffer) = {})
  /\ [][ /\ (recv_pc \in FlushAwaits /\ recv_pc' \notin FlushAwaits /\ recv_batch \notin analysed') =>
             /\ PROCESSED_LOG_BATCH' = PROCESSED_LOG_BATCH
             /\ batch_age' = batch_age
             /\ batches' = batches
         /\ (bg_pc = "analyze" /\ bg_pc' # "analyze") =>
             /\ Range(batches[bg_batch]) \cap Range(log_buffer') = {}
             /\ \A i \in 1..Len(batches') :
                  i # bg_batch => Range(batches'[i]) \cap Range(batches[bg_batch]) = {}
       ]_vars

\* the analysis of the first batch failed, the receiver went on and a later batch
\* was analysed
C23_Witness ==
  /\ Len(batches) = 2
  /\ 1 \notin analysed
  /\ 2 \in analysed
  /\ cancels = 0
  /\ recv_pc = "loop"

\* C24: no batch handed to the analyzer holds more than MAX_LOG_BATCH_SIZE
\* records.
C24_BatchAtMostMaxSize ==
  \A i \in 1..Len(batches) : Len(batches[i]) <= MAX_LOG_BATCH_SIZE

\* a sequence of record ids in the order of their arrival
InArrivalOrder(q) == \A k, l \in 1..Len(q) : k < l => q[k] < q[l]

\* C25: records are numbered in the order of their arrival.  Within every batch
\* and within both buffers the records are in arrival order, every record of an
\* earlier batch arrived before every record of a later batch, and every record
\* still buffered arrived after every record handed over.
C25_ArrivalOrder ==
  /\ InArrivalOrder(PROCESSED_LOG_BATCH)
  /\ InArrivalOrder(log_buffer)
  /\ \A i \in 1..Len(batches) :
       /\ InArrivalOrder(batches[i])
       /\ \A j \in 1..Len(batches) :
            i < j => \A a \in Range(batches[i]), b \in Range(batches[j]) : a < b
       /\ \A a \in Range(batches[i]), b \in Range(PROCESSED_LOG_BATCH) \cup Range(log_buffer) :
            a < b

\* the receiver handed over a batch of two records and buffered a third
C25_Witness ==
  /\ recv_pc = "loop"
  /\ Len(batches) = 1
  /\ Len(batches[1]) = 2
  /\ PROCESSED_LOG_BATCH # << >>

\* C26: a record that parsed is in the batch buffer, or in the batch flushed by
\* the size check, when the step that handled it is over, whether or not the
\* write to the log file succeeded; the connection stays open.
C26_WriteFailureContained ==
  [][ \A id \in parsed_ids' \ parsed_ids :
        /\ id \in Range(PROCESSED_LOG_BATCH') \cup Range(log_buffer') \cup BatchedIds'
        /\ recv_pc = "recv" => conn' = "open"
    ]_vars

\* C27: an analyzer call that nobody cancelled returns to the flush that made
\* it: the step that ends the call records the batch as analysed.
C27_AnalyzerNeverRaises ==
  [][ (recv_pc \in FlushAwaits /\ ~recv_cancel /\ recv_pc' \notin FlushAwaits) =>
        recv_batch \in analysed'
    ]_vars

\* C28: the program is started with its credentials present (the __main__ test
\* passed), so no error is a configuration error: no exception ends the pipeline
\* task.
C28_ErrorsContained == pipe_exc = "none"

\* C29: the age of the batch is tested whenever the receive returns, with a
\* frame or without one: a batch that has been due for a second is flushed (or
\* has grown) when the step that ends the receive is over.
C29_AgeCheckedUnderTraffic ==
  [][ (recv_pc = "recv" /\ overdue >= 1 /\ recv_pc' \in {"loop", "handle_flush", "timeout_flush"}) =>
        overdue' = 0
    ]_vars

\* C30: a receive that timed out is no error and takes the receiver back to the
\* loop test: the step that follows the timeout branch keeps it in the loop, and
\* once the event is set no second passes with the receiver still inside the
\* timeout branch.
C30_TimeoutBackToLoopTest ==
  [][ /\ (recv_pc = "timeout_flush" /\ ~recv_cancel) => recv_pc' \in {"timeout_flush", "loop"}
      /\ (recv_pc = "timeout_flush" /\ shutdown_event) => batch_age' = batch_age
    ]_vars

\* C31: the wait of stop() for the background task never lasts longer than the
\* grace period, and the step in which the wait times out cancels the task and
\* goes on in the same stop(): what is buffered is handed to the analyzer, or,
\* with nothing buffered, the output file is closed and stop() returns.
C31_GraceBoundsTheWait ==
  /\ [](\A c \in Callers : grace[c] \in 0..STOP_WAIT_TIMEOUT)
  /\ [][ \A c \in Callers :
           (stop_pc[c] = "wait_bg" /\ BgRunning /\ bg_pc' = "cancelled"
              /\ stop_pc'[c] \notin {"wait_bg", "raised"}) =>
             /\ grace[c] = 0
             /\ log_buffer' = << >>
             /\ \/ stop_pc'[c] = "analyze" /\ batches' = Append(batches, log_buffer)
                \/ stop_pc'[c] = "returned" /\ log_buffer = << >> /\ output_file' = "closed"
       ]_vars

\* the handler's stop() timed out on a background task busy in an analyzer call,
\* cancelled it and returned
C31_Witness ==
  /\ bg_pc = "cancelled"
  /\ wrap_pc = "await_pipeline"
  /\ stop_pc[PipeCaller] = "none"
  /\ \E h \in Handlers : stop_pc[h] = "returned"
  /\ output_file = "closed"

\* C32: a batch handed to the analyzer holds the records that were buffered at
\* the hand-over (it is never empty) and keeps them: no step changes or removes
\* a batch handed over, and the step that ends an analyzer call, with a result
\* or with an error, finds every batch as it was handed over.
C32_BatchNeverMutated ==
  /\ [](\A i \in 1..Len(batches) : batches[i] # << >>)
  /\ [][ /\ \A i \in 1..Len(batches) : i <= Len(batches') /\ batches'[i] = batches[i]
         /\ (analysed' # analysed \/ (recv_pc \in FlushAwaits /\ recv_pc' \notin FlushAwaits)) =>
               batches' = batches
       ]_vars

\* the analysis of a full batch of the receiver returned and a record that came
\* later is buffered
C32_Witness ==
  /\ recv_pc = "loop"
  /\ 1 \in analysed
  /\ Len(batches[1]) = MAX_LOG_BATCH_SIZE
  /\ PROCESSED_LOG_BATCH # << >>

\* C33: once run_log_pipeline has built its objects, a handle on the output file
\* is open only while a receiver run is going on, and the LogProcessor and the
\* receiver never both hold one.
C33_OneWriterOfTheConnector ==
  /\ (output_file = "open" /\ pipe_pc # "start") => RunLive(recv_pc)
  /\ ~(output_file = "open" /\ file_handle = "open")

\* C34: a received frame that did not parse changes nothing: the batch, its
\* flush time, the batches handed over and the connection are as before, and the
\* receiver is back at its loop test.  (A frame holding well-formed lines that
\* fails to parse uses up their record numbers and adds none to parsed_ids.)
C34_ParseFailureNoEffect ==
  [][ (recv_pc = "recv" /\ next_id' > next_id /\ parsed_ids' = parsed_ids) =>
        /\ PROCESSED_LOG_BATCH' = PROCESSED_LOG_BATCH
        /\ batch_age' = batch_age
        /\ batches' = batches
        /\ conn' = "open"
        /\ recv_pc' = "loop"
    ]_vars

\* a frame failed to parse and a record received after it is in the batch
C34_Witness ==
  /\ recv_pc = "loop"
  /\ conn = "open"
  /\ \E a \in rec_ids \ parsed_ids, b \in Range(PROCESSED_LOG_BATCH) : a < b

\* C35: a run that left its loop for renewal and was not cancelled ends only
\* from its own close of the connection.
C35_RenewalClosesItself ==
  [][ (exit_reason = "renewal" /\ cancels = 0 /\ ~RecvOver /\ RecvOver') =>
        recv_pc = "closing"
    ]_vars

\* C36: nothing is flushed from an empty buffer.  A batch handed to the analyzer
\* is never empty, and a step that finds the buffer empty and adds no record
\* leaves it empty, hands nothing over and does not reset the flush time (only
\* the connect of line 324 sets LAST_BATCH_FLUSH_TIME without a flush).
C36_EmptyFlushNoOp ==
  [][ /\ Len(batches') > Len(batches) => batches'[Len(batches')] # << >>
      /\ (recv_pc = "none" /\ log_buffer = << >> /\ next_id' = next_id) =>
            /\ batches' = batches
            /\ log_buffer' = << >>
            /\ flush_age' = 0 => flush_age = 0
      /\ (recv_pc \notin {"none", "connecting"} /\ PROCESSED_LOG_BATCH = << >>
             /\ next_id' = next_id) =>
            /\ batches' = batches
            /\ PROCESSED_LOG_BATCH' = << >>
            /\ batch_age' = 0 => batch_age = 0
    ]_vars

\* a receiver stayed idle past the flush interval with an empty batch, saw the
\* shutdown and ended its run without any flush
C36_Witness ==
  /\ recv_pc = "stopped"
  /\ exit_reason = "shutdown"
  /\ batches = << >>
  /\ batch_age >= BATCH_FLUSH_INTERVAL_SECONDS

\* C37: when a receiver run is over, PROCESSED_LOG_BATCH is empty, and it is
\* empty when the next run starts.
C37_BufferEmptyAtRunEnd ==
  (RecvOver \/ recv_pc = "start") => PROCESSED_LOG_BATCH = << >>

\* a run that ended on a remote close before a second had passed flushed its one
\* buffered record in the finally block
C37_Witness ==
  /\ recv_pc = "stopped"
  /\ exit_reason = "closed_ok"
  /\ session_age = 0
  /\ Len(batches) = 1
  /\ Len(batches[1]) = 1

\* the callers that have called LogProcessor.stop()
StopCallers == {c \in Callers : stop_pc[c] # "none"}

\* C38: LogProcessor.stop() is called by at most one of its three callers.
C38_StopCalledOnce == Cardinality(StopCallers) <= 1

\* C39: when the process has exited, every signal handler that had started its
\* teardown (it had called stop()) has run to its end.
C39_HandlerRunsToCompletion ==
  wrap_pc = "exited" => \A h \in Handlers : stop_pc[h] # "none" => h_pc[h] = "done"

\* C40: an analyzer call of the receiver that nobody cancelled ends by
\* returning a result, empty when its attempts are used up: the batch is recorded
\* as analysed, no error is recorded for the run, and the receiver goes on where
\* the flush was called, at the loop test or at the close.
C40_CallEndsWithResult ==
  [][ (recv_pc \in FlushAwaits /\ ~recv_cancel /\ recv_pc' \notin FlushAwaits) =>
        /\ analysed' = analysed \cup {recv_batch}
        /\ exit_reason' = exit_reason
        /\ recv_pc' \in {"loop", "close"}
    ]_vars

====
